---- MODULE Spec2Model ----
(***************************************************************************)
(* Model of perseus' RenderCtx (packages/perseus/src/template/             *)
(* render_ctx.rs): the page state store, the global state slot, the        *)
(* pending frozen app with its thaw preferences, and the operations that   *)
(* freeze, thaw and reconcile them.                                        *)
(***************************************************************************)
EXTENDS Integers, Sequences, FiniteSets, TLC

\* ------------------------------------------------------------------ bounds
\* State values are 1..MaxVal.
MaxVal == 2

\* ----------------------------------------------------------------- domains
URLs == {"/a", "/b"}
\* The state types a caller can request (the type parameter R).
Types == {"A", "B"}
\* The types requested by the calls of Spec.
ReqTypes == {"A"}
Vals == 1..MaxVal

\* Option<T>: None is the empty sequence, Some(x) a one-element sequence.
None == <<>>
Some(x) == <<x>>

\* A typed reactive state value.
Value(t, v) == [ty |-> t, val |-> v]
Values == {Value(t, v) : t \in Types, v \in Vals}

\* Serialized state strings: the JSON of a value of some shape, a string
\* that is no JSON of any state type, and the literal "None".
Json(t, v) == [k |-> "json", ty |-> t, val |-> v]
BadStr == [k |-> "bad", ty |-> "-", val |-> 0]
NoneStr == [k |-> "None", ty |-> "-", val |-> 0]

\* serde_json::from_str::<R::Unrx>(s) followed by make_rx(): None on error.
Deserialize(R, s) ==
    IF s.k = "json" /\ s.ty = R THEN Some(Value(R, s.val)) ELSE None

\* The freeze() of one reactive state value: its JSON.
FreezeValue(v) == Json(v.ty, v.val)

\* ---------------------------------------------------------- PageStateStore
NoEntry == [flag |-> "Unset", st |-> None]

\* PageStateStore::get_state::<R>(url)
GetState(ps, u, R) ==
    IF ps[u].st # None /\ ps[u].st[1].ty = R THEN ps[u].st ELSE None

\* PageStateStore::add_state(url, val): the returned bool.
AddStateOk(ps, u) == ps[u].flag # "Never"

\* PageStateStore::add_state(url, val): the store afterwards.
AddState(ps, u, v) ==
    IF AddStateOk(ps, u)
    THEN [ps EXCEPT ![u] = [flag |-> "Has", st |-> Some(v)]]
    ELSE ps

\* PageStateStore::set_state_never(url)
SetStateNever(ps, u) == [ps EXCEPT ![u] = [flag |-> "Never", st |-> None]]

\* PageStateStore::freeze_to_hash_map()
FreezeToHashMap(ps) ==
    [u \in {x \in URLs : ps[x].st # None} |-> FreezeValue(ps[u].st[1])]

\* --------------------------------------------------------------- ThawPrefs
\* PageThawPrefs::should_use_frozen_state(url); the policy is the set of
\* URLs that prefer frozen state.
ShouldUseFrozenState(page, u) == u \in page

\* ------------------------------------------------------------- GlobalState
\* GlobalState's freeze(): the JSON of the value, or "None" when unset.
FreezeGlobal(gs) == IF gs = None THEN NoneStr ELSE FreezeValue(gs[1])

\* --------------------------------------------------------------- FrozenApp
\* The strings handed to thaw(): the JSON of a FrozenApp when wf, and text
\* that serde_json rejects otherwise.
SnapStr(w, r, g, p) ==
    [wf |-> w, route |-> r, global_state |-> g, page_state_store |-> p]

\* serde_json::from_str::<FrozenApp>(s): None on error.
ParseFrozenApp(s) ==
    IF s.wf
    THEN Some([route |-> s.route, global_state |-> s.global_state,
               page_state_store |-> s.page_state_store])
    ELSE None

\* serde_json::to_string(&frozen_app)
FrozenAppToString(app) ==
    SnapStr(TRUE, app.route, app.global_state, app.page_state_store)

\* Removal of one key from a HashMap<String, String>.
MapRemove(m, u) == [x \in DOMAIN m \ {u} |-> m[x]]

\* ------------------------------------------------------------------ inputs
\* Serialized state handed to register_*_state_str.
StateStrs == {BadStr} \cup {Json("A", v) : v \in Vals}
\* Serialized state handed to register_*_state_str where snapshots are
\* thawed as well: values that no snapshot of ThawStrs holds, so that a
\* value read back tells where it came from.
RegStrs == {BadStr} \cup {Json("A", v) : v \in Vals \ {MaxVal}}
\* The state strings of the snapshots handed to thaw().
SnapStateStrs == {BadStr, Json("A", MaxVal)}
\* The page maps of those snapshots: an entry for every page.
SnapPageMaps == [URLs -> SnapStateStrs]
\* The number of corrupt state strings in a snapshot.
Corrupt(g, p) ==
    Cardinality({u \in DOMAIN p : p[u] = BadStr}) + (IF g = BadStr THEN 1 ELSE 0)
\* The strings handed to thaw(): snapshots frozen on the route "/a" with at
\* most one corrupt state string, the snapshot of an app frozen before it
\* had a route or any state, and a malformed one.
ThawStrs ==
    {s \in {SnapStr(TRUE, "/a", g, p) :
                g \in SnapStateStrs \cup {NoneStr}, p \in SnapPageMaps} :
        Corrupt(s.global_state, s.page_state_store) <= 1}
    \cup {SnapStr(TRUE, "SERVER", NoneStr, <<>>)}
    \cup {SnapStr(FALSE, "/a", Json("A", MaxVal), [u \in URLs |-> Json("A", MaxVal)])}
ThawPrefsSet ==
    [global_prefer_frozen : BOOLEAN, page : SUBSET URLs]
\* The strings and preferences handed to thaw() while tasks reconcile pages:
\* snapshots without global state whose page entries are valid but for at
\* most the one of "/b", and preferences that differ in the pages.
TaskThawStrs ==
    {s \in ThawStrs : /\ s.wf /\ s.route = "/a" /\ s.global_state = NoneStr
                      /\ s.page_state_store["/a"] # BadStr}
TaskThawPrefs == {p \in ThawPrefsSet : ~p.global_prefer_frozen}
\* The strings handed to thaw() while state is read at either type: the
\* snapshots frozen on a route whose state strings are all valid.
TypedThawStrs ==
    {s \in ThawStrs : /\ s.wf /\ s.route = "/a"
                      /\ Corrupt(s.global_state, s.page_state_store) = 0}

\* ------------------------------------------------------------------- state
VARIABLES
    router,            \* RouterLoadState: "Server" or the path loaded
    page_state_store,  \* url -> [flag, st]
    global_state,      \* Option<Value>
    frozen_app,        \* Option<(FrozenApp, ThawPrefs)>
    alive,             \* FALSE once a call has panicked
    consumed,          \* what has been taken from the pending snapshot
    missed,            \* what failed to deserialize from the pending snapshot
    frozen_from,       \* the live state the pending snapshot was frozen from
    restored,          \* whose live value was consumed from a snapshot
    preload,           \* url -> preload status of the page state store
    fetches,           \* url -> transport fetches issued for the page so far
    tasks,             \* task -> where its reconciliation call is, and its locals
    running,           \* the task the event loop is running, or NoTask
    last               \* the call that has just returned, or Idle

vars == <<router, page_state_store, global_state, frozen_app, alive,
          consumed, missed, frozen_from, restored, preload, fetches, tasks,
          running, last>>

\* The record of a call: what was called with which arguments, what it
\* returned, where the value came from, which router commands the call
\* issued, and the active state (of the page, or the global one) the call
\* started from.
Call(op, u, R, arg, kind, val, took, nav, pre) ==
    [op |-> op, url |-> u, ty |-> R, arg |-> arg, kind |-> kind, val |-> val,
     took |-> took, nav |-> nav, pre |-> pre]

\* No call has returned since the caller last went on.
Idle ==
    [op |-> "idle", url |-> "-", ty |-> "-", arg |-> None, kind |-> "-",
     val |-> None, took |-> "-", nav |-> <<>>, pre |-> None]

\* The paths preloads are asked for: the pages of the app, a path no
\* template serves and a path without a locale.
Paths == URLs \cup {"/404", "/"}

\* The tasks of the event loop that make reconciliation calls.
Tasks == {"t1", "t2"}
NoTask == "none"

\* A task that is not inside a reconciliation call; it keeps what its last
\* call was for and what it returned.
TaskIdle(u, R, ret, took) ==
    [pc |-> "idle", url |-> u, ty |-> R, rx |-> None, ret |-> ret, took |-> took]

\* A task inside get_frozen_page_state_and_register, about to run the code
\* at pc with the deserialized value rx in hand.
TaskAt(pc, u, R, rx) ==
    [pc |-> pc, url |-> u, ty |-> R, rx |-> rx, ret |-> None, took |-> FALSE]

\* A task that is not inside a preload; ret is what its last preload of
\* path resolved to.
PreloadIdle(path, ret) ==
    [pc |-> "idle", url |-> path, ty |-> "-", rx |-> None, ret |-> ret,
     took |-> FALSE]

\* A task suspended at pc inside the preload of path.
PreloadAt(pc, path, is_route_preload) ==
    [pc |-> pc, url |-> path, ty |-> "-", rx |-> Some(is_route_preload),
     ret |-> None, took |-> FALSE]

Init ==
    /\ router = "Server"
    /\ page_state_store = [u \in URLs |-> NoEntry]
    /\ global_state = None
    /\ frozen_app = None
    /\ alive = TRUE
    /\ consumed = {}
    /\ missed = {}
    /\ frozen_from = None
    /\ restored = {}
    /\ preload = [p \in Paths |-> "None"]
    /\ fetches = [p \in Paths |-> [issued |-> 0, stored |-> 0]]
    /\ tasks = [t \in Tasks |-> TaskIdle("/a", "A", None, FALSE)]
    /\ running = NoTask
    /\ last = Idle

\* ---------------------------------------------------------- reconciliation
\* The result of an internal getter: the value returned, the stores
\* afterwards and whether a frozen entry was consumed.
Res(ret, ps, gs, fa, took) ==
    [ret |-> ret, ps |-> ps, gs |-> gs, fa |-> fa, took |-> took]

\* RenderCtx::get_active_page_state::<R>(url)
GetActivePageState(ps, u, R) == GetState(ps, u, R)

\* get_frozen_page_state_and_register that leaves the entry it has just
\* registered in the frozen app.
GetFrozenPageStateAndRegister_KeepsEntry(fa, ps, gs, u, R) ==
    IF fa = None THEN Res(None, ps, gs, fa, FALSE)
    ELSE IF ~ShouldUseFrozenState(fa[1].prefs.page, u)
    THEN Res(None, ps, gs, fa, FALSE)
    ELSE IF u \notin DOMAIN fa[1].app.page_state_store
    THEN Res(GetState(ps, u, R), ps, gs, fa, FALSE)
    ELSE LET rx == Deserialize(R, fa[1].app.page_state_store[u]) IN
         IF rx = None THEN Res(None, ps, gs, fa, FALSE)
         ELSE IF ~AddStateOk(ps, u) THEN Res(None, ps, gs, fa, FALSE)
         ELSE Res(rx, AddState(ps, u, rx[1]), gs, fa, TRUE)

\* get_frozen_page_state_and_register that gives up the whole pending
\* snapshot when one entry does not deserialize.
GetFrozenPageStateAndRegister_DropsSnapshot(fa, ps, gs, u, R) ==
    IF fa = None THEN Res(None, ps, gs, fa, FALSE)
    ELSE IF ~ShouldUseFrozenState(fa[1].prefs.page, u)
    THEN Res(None, ps, gs, fa, FALSE)
    ELSE IF u \notin DOMAIN fa[1].app.page_state_store
    THEN Res(GetState(ps, u, R), ps, gs, fa, FALSE)
    ELSE LET rx == Deserialize(R, fa[1].app.page_state_store[u]) IN
         IF rx = None THEN Res(None, ps, gs, None, FALSE)
         ELSE IF ~AddStateOk(ps, u) THEN Res(None, ps, gs, fa, FALSE)
         ELSE Res(rx, AddState(ps, u, rx[1]), gs,
                  Some([fa[1] EXCEPT !.app.page_state_store =
                            MapRemove(@, u)]),
                  TRUE)

\* get_frozen_page_state_and_register that removes an entry that does not
\* deserialize.
GetFrozenPageStateAndRegister_RemovesCorrupt(fa, ps, gs, u, R) ==
    IF fa = None THEN Res(None, ps, gs, fa, FALSE)
    ELSE IF ~ShouldUseFrozenState(fa[1].prefs.page, u)
    THEN Res(None, ps, gs, fa, FALSE)
    ELSE IF u \notin DOMAIN fa[1].app.page_state_store
    THEN Res(GetState(ps, u, R), ps, gs, fa, FALSE)
    ELSE LET rx == Deserialize(R, fa[1].app.page_state_store[u]) IN
         IF rx = None
         THEN Res(None, ps, gs,
                  Some([fa[1] EXCEPT !.app.page_state_store = MapRemove(@, u)]),
                  FALSE)
         ELSE IF ~AddStateOk(ps, u) THEN Res(None, ps, gs, fa, FALSE)
         ELSE Res(rx, AddState(ps, u, rx[1]), gs,
                  Some([fa[1] EXCEPT !.app.page_state_store =
                            MapRemove(@, u)]),
                  TRUE)

\* get_frozen_page_state_and_register that does not look at what add_state
\* returned.
GetFrozenPageStateAndRegister_IgnoresRejection(fa, ps, gs, u, R) ==
    IF fa = None THEN Res(None, ps, gs, fa, FALSE)
    ELSE IF ~ShouldUseFrozenState(fa[1].prefs.page, u)
    THEN Res(None, ps, gs, fa, FALSE)
    ELSE IF u \notin DOMAIN fa[1].app.page_state_store
    THEN Res(GetState(ps, u, R), ps, gs, fa, FALSE)
    ELSE LET rx == Deserialize(R, fa[1].app.page_state_store[u]) IN
         IF rx = None THEN Res(None, ps, gs, fa, FALSE)
         ELSE Res(rx, AddState(ps, u, rx[1]), gs,
                  Some([fa[1] EXCEPT !.app.page_state_store =
                            MapRemove(@, u)]),
                  TRUE)

\* get_frozen_page_state_and_register that returns the frozen value and
\* removes its entry without registering the value.
GetFrozenPageStateAndRegister_SkipsRegister(fa, ps, gs, u, R) ==
    IF fa = None THEN Res(None, ps, gs, fa, FALSE)
    ELSE IF ~ShouldUseFrozenState(fa[1].prefs.page, u)
    THEN Res(None, ps, gs, fa, FALSE)
    ELSE IF u \notin DOMAIN fa[1].app.page_state_store
    THEN Res(GetState(ps, u, R), ps, gs, fa, FALSE)
    ELSE LET rx == Deserialize(R, fa[1].app.page_state_store[u]) IN
         IF rx = None THEN Res(None, ps, gs, fa, FALSE)
         ELSE IF ~AddStateOk(ps, u) THEN Res(None, ps, gs, fa, FALSE)
         ELSE Res(rx, ps, gs,
                  Some([fa[1] EXCEPT !.app.page_state_store =
                            MapRemove(@, u)]),
                  TRUE)

\* get_frozen_page_state_and_register that also takes the frozen global
\* state out of the frozen app when it consumes a page entry.
GetFrozenPageStateAndRegister_TakesGlobal(fa, ps, gs, u, R) ==
    IF fa = None THEN Res(None, ps, gs, fa, FALSE)
    ELSE IF ~ShouldUseFrozenState(fa[1].prefs.page, u)
    THEN Res(None, ps, gs, fa, FALSE)
    ELSE IF u \notin DOMAIN fa[1].app.page_state_store
    THEN Res(GetState(ps, u, R), ps, gs, fa, FALSE)
    ELSE LET rx == Deserialize(R, fa[1].app.page_state_store[u]) IN
         IF rx = None THEN Res(None, ps, gs, fa, FALSE)
         ELSE IF ~AddStateOk(ps, u) THEN Res(None, ps, gs, fa, FALSE)
         ELSE Res(rx, AddState(ps, u, rx[1]), gs,
                  Some([fa[1] EXCEPT !.app.page_state_store = MapRemove(@, u),
                                     !.app.global_state = NoneStr]),
                  TRUE)

\* RenderCtx::get_frozen_page_state_and_register::<R>(url)
GetFrozenPageStateAndRegister(fa, ps, gs, u, R) ==
    IF fa = None THEN Res(None, ps, gs, fa, FALSE)
    ELSE IF ~ShouldUseFrozenState(fa[1].prefs.page, u)
    THEN Res(None, ps, gs, fa, FALSE)
    ELSE IF u \notin DOMAIN fa[1].app.page_state_store
    THEN Res(GetState(ps, u, R), ps, gs, fa, FALSE)
    ELSE LET rx == Deserialize(R, fa[1].app.page_state_store[u]) IN
         IF rx = None THEN Res(None, ps, gs, fa, FALSE)
         ELSE IF ~AddStateOk(ps, u) THEN Res(None, ps, gs, fa, FALSE)
         ELSE Res(rx, AddState(ps, u, rx[1]), gs,
                  Some([fa[1] EXCEPT !.app.page_state_store =
                            MapRemove(@, u)]),
                  TRUE)

\* get_active_or_frozen_page_state that asks the page state store first
\* whatever the thaw preferences say.
ActiveOrFrozenPageState_ActiveFirst(fa, ps, gs, u, R) ==
    LET a == GetActivePageState(ps, u, R) IN
    IF a # None THEN Res(a, ps, gs, fa, FALSE)
    ELSE GetFrozenPageStateAndRegister(fa, ps, gs, u, R)

\* get_active_or_frozen_page_state that, when it returns the active state
\* it prefers, also drops the frozen entry it did not use.
ActiveOrFrozenPageState_DropsUnused(fa, ps, gs, u, R) ==
    IF fa # None
    THEN IF ShouldUseFrozenState(fa[1].prefs.page, u)
         THEN LET f == GetFrozenPageStateAndRegister(fa, ps, gs, u, R) IN
              IF f.ret # None THEN f
              ELSE Res(GetActivePageState(f.ps, u, R), f.ps, f.gs, f.fa, f.took)
         ELSE LET a == GetActivePageState(ps, u, R) IN
              IF a # None
              THEN Res(a, ps, gs,
                       Some([fa[1] EXCEPT !.app.page_state_store =
                                 MapRemove(@, u)]),
                       FALSE)
              ELSE GetFrozenPageStateAndRegister(fa, ps, gs, u, R)
    ELSE Res(GetActivePageState(ps, u, R), ps, gs, fa, FALSE)

\* get_active_or_frozen_page_state that returns nothing when no frozen app
\* is pending.
ActiveOrFrozenPageState_NeedsSnapshot(fa, ps, gs, u, R) ==
    IF fa # None
    THEN IF ShouldUseFrozenState(fa[1].prefs.page, u)
         THEN LET f == GetFrozenPageStateAndRegister(fa, ps, gs, u, R) IN
              IF f.ret # None THEN f
              ELSE Res(GetActivePageState(f.ps, u, R), f.ps, f.gs, f.fa, f.took)
         ELSE LET a == GetActivePageState(ps, u, R) IN
              IF a # None THEN Res(a, ps, gs, fa, FALSE)
              ELSE GetFrozenPageStateAndRegister(fa, ps, gs, u, R)
    ELSE Res(None, ps, gs, fa, FALSE)

\* RenderCtx::get_active_or_frozen_page_state::<R>(url)
ActiveOrFrozenPageState(fa, ps, gs, u, R) ==
    IF fa # None
    THEN IF ShouldUseFrozenState(fa[1].prefs.page, u)
         THEN LET f == GetFrozenPageStateAndRegister(fa, ps, gs, u, R) IN
              IF f.ret # None THEN f
              ELSE Res(GetActivePageState(f.ps, u, R), f.ps, f.gs, f.fa, f.took)
         ELSE LET a == GetActivePageState(ps, u, R) IN
              IF a # None THEN Res(a, ps, gs, fa, FALSE)
              ELSE GetFrozenPageStateAndRegister(fa, ps, gs, u, R)
    ELSE Res(GetActivePageState(ps, u, R), ps, gs, fa, FALSE)

\* get_active_global_state that hands out the stored global state whatever
\* its type.
GetActiveGlobalState_AnyType(gs, R) == gs

\* RenderCtx::get_active_global_state::<R>()
GetActiveGlobalState(gs, R) ==
    IF gs # None /\ gs[1].ty = R THEN gs ELSE None

\* get_frozen_global_state_and_register that leaves the global state it has
\* just registered in the frozen app.
GetFrozenGlobalStateAndRegister_KeepsGlobal(fa, ps, gs, R) ==
    IF fa = None THEN Res(None, ps, gs, fa, FALSE)
    ELSE IF ~fa[1].prefs.global_prefer_frozen
    THEN Res(None, ps, gs, fa, FALSE)
    ELSE IF fa[1].app.global_state = NoneStr
    THEN Res(None, ps, gs, fa, FALSE)
    ELSE LET rx == Deserialize(R, fa[1].app.global_state) IN
         IF rx = None THEN Res(None, ps, gs, fa, FALSE)
         ELSE Res(rx, ps, rx, fa, TRUE)

\* A frozen global getter that resets a frozen global state it cannot
\* deserialize to the "None" sentinel.
GetFrozenGlobalStateAndRegister_ClearsCorrupt(fa, ps, gs, R) ==
    IF fa = None THEN Res(None, ps, gs, fa, FALSE)
    ELSE IF ~fa[1].prefs.global_prefer_frozen
    THEN Res(None, ps, gs, fa, FALSE)
    ELSE IF fa[1].app.global_state = NoneStr
    THEN Res(None, ps, gs, fa, FALSE)
    ELSE LET rx == Deserialize(R, fa[1].app.global_state) IN
         IF rx = None
         THEN Res(None, ps, gs,
                  Some([fa[1] EXCEPT !.app.global_state = NoneStr]), FALSE)
         ELSE Res(rx, ps, rx,
                  Some([fa[1] EXCEPT !.app.global_state = NoneStr]),
                  TRUE)

\* RenderCtx::get_frozen_global_state_and_register::<R>()
GetFrozenGlobalStateAndRegister(fa, ps, gs, R) ==
    IF fa = None THEN Res(None, ps, gs, fa, FALSE)
    ELSE IF ~fa[1].prefs.global_prefer_frozen
    THEN Res(None, ps, gs, fa, FALSE)
    ELSE IF fa[1].app.global_state = NoneStr
    THEN Res(None, ps, gs, fa, FALSE)
    ELSE LET rx == Deserialize(R, fa[1].app.global_state) IN
         IF rx = None THEN Res(None, ps, gs, fa, FALSE)
         ELSE Res(rx, ps, rx,
                  Some([fa[1] EXCEPT !.app.global_state = NoneStr]),
                  TRUE)

\* RenderCtx::get_active_or_frozen_global_state::<R>()
ActiveOrFrozenGlobalState(fa, ps, gs, R) ==
    IF fa # None
    THEN IF fa[1].prefs.global_prefer_frozen
         THEN LET f == GetFrozenGlobalStateAndRegister(fa, ps, gs, R) IN
              IF f.ret # None THEN f
              ELSE Res(GetActiveGlobalState(f.gs, R), f.ps, f.gs, f.fa, f.took)
         ELSE LET a == GetActiveGlobalState(gs, R) IN
              IF a # None THEN Res(a, ps, gs, fa, FALSE)
              ELSE GetFrozenGlobalStateAndRegister(fa, ps, gs, R)
    ELSE Res(GetActiveGlobalState(gs, R), ps, gs, fa, FALSE)

\* Where a reconciliation result came from.
Outcome(r) ==
    IF r.took THEN "frozen" ELSE IF r.ret # None THEN "active" ELSE "absent"

\* The page entries of a pending frozen app.
PendingPagesOf(fa) == fa[1].app.page_state_store

\* The frozen getter for page u reads an entry that does not deserialize.
PageMiss(fa, u, R) ==
    /\ fa # None
    /\ ShouldUseFrozenState(fa[1].prefs.page, u)
    /\ u \in DOMAIN fa[1].app.page_state_store
    /\ Deserialize(R, fa[1].app.page_state_store[u]) = None

\* The frozen global getter reads a global state that does not deserialize.
GlobalMiss(fa, R) ==
    /\ fa # None
    /\ fa[1].prefs.global_prefer_frozen
    /\ fa[1].app.global_state # NoneStr
    /\ Deserialize(R, fa[1].app.global_state) = None

\* A caller can make a call: nothing has panicked and the previous call's
\* result has been taken.
Ready == alive /\ last = Idle

\* A call of get_active_or_frozen_page_state::<R>(u).
GetActiveOrFrozenPageState(u, R) ==
    /\ UNCHANGED <<preload, fetches>>
    /\ Ready
    /\ LET r == ActiveOrFrozenPageState(frozen_app, page_state_store,
                                        global_state, u, R) IN
       /\ page_state_store' = r.ps
       /\ global_state' = r.gs
       /\ frozen_app' = r.fa
       /\ consumed' = IF r.took THEN consumed \cup {u} ELSE consumed
       /\ restored' = IF r.took THEN restored \cup {u} ELSE restored
       /\ missed' = IF PageMiss(frozen_app, u, R) THEN missed \cup {u} ELSE missed
       /\ last' = Call("get_page", u, R, None,
                       IF r.ret = None THEN "None" ELSE "Some",
                       r.ret, Outcome(r), <<>>, page_state_store[u].st)
    /\ UNCHANGED <<router, alive, frozen_from, tasks, running>>

\* A call of get_active_or_frozen_global_state::<R>().
GetActiveOrFrozenGlobalState(R) ==
    /\ UNCHANGED <<preload, fetches>>
    /\ Ready
    /\ LET r == ActiveOrFrozenGlobalState(frozen_app, page_state_store,
                                          global_state, R) IN
       /\ page_state_store' = r.ps
       /\ global_state' = r.gs
       /\ frozen_app' = r.fa
       /\ consumed' = IF r.took THEN consumed \cup {"GLOBAL"} ELSE consumed
       /\ restored' = IF r.took THEN restored \cup {"GLOBAL"} ELSE restored
       /\ missed' = IF GlobalMiss(frozen_app, R) THEN missed \cup {"GLOBAL"}
                    ELSE missed
       /\ last' = Call("get_global", "-", R, None,
                       IF r.ret = None THEN "None" ELSE "Some",
                       r.ret, Outcome(r), <<>>, global_state)
    /\ UNCHANGED <<router, alive, frozen_from, tasks, running>>

\* The caller of the get_active_or_frozen_page_state call that has just
\* returned makes the same call again; arg keeps what the first call
\* returned and pre what the page held before it.
GetActiveOrFrozenPageStateAgain ==
    /\ UNCHANGED <<preload, fetches>>
    /\ alive
    /\ last.op = "get_page"
    /\ LET u == last.url
           R == last.ty
           r == ActiveOrFrozenPageState(frozen_app, page_state_store,
                                        global_state, u, R) IN
       /\ page_state_store' = r.ps
       /\ global_state' = r.gs
       /\ frozen_app' = r.fa
       /\ consumed' = IF r.took THEN consumed \cup {u} ELSE consumed
       /\ restored' = IF r.took THEN restored \cup {u} ELSE restored
       /\ missed' = IF PageMiss(frozen_app, u, R) THEN missed \cup {u} ELSE missed
       /\ last' = Call("get_page_again", u, R, Some(last.val),
                       IF r.ret = None THEN "None" ELSE "Some",
                       r.ret, Outcome(r), <<>>, last.pre)
    /\ UNCHANGED <<router, alive, frozen_from, tasks, running>>

\* The caller of the get_active_or_frozen_global_state call that has just
\* returned makes the same call again.
GetActiveOrFrozenGlobalStateAgain ==
    /\ UNCHANGED <<preload, fetches>>
    /\ alive
    /\ last.op = "get_global"
    /\ LET R == last.ty
           r == ActiveOrFrozenGlobalState(frozen_app, page_state_store,
                                          global_state, R) IN
       /\ page_state_store' = r.ps
       /\ global_state' = r.gs
       /\ frozen_app' = r.fa
       /\ consumed' = IF r.took THEN consumed \cup {"GLOBAL"} ELSE consumed
       /\ restored' = IF r.took THEN restored \cup {"GLOBAL"} ELSE restored
       /\ missed' = IF GlobalMiss(frozen_app, R) THEN missed \cup {"GLOBAL"}
                    ELSE missed
       /\ last' = Call("get_global_again", "-", R, Some(last.val),
                       IF r.ret = None THEN "None" ELSE "Some",
                       r.ret, Outcome(r), <<>>, last.pre)
    /\ UNCHANGED <<router, alive, frozen_from, tasks, running>>

\* ------------------------------------------------------------ thaw, freeze
\* The route freeze() and thaw() read from the router's load state; the
\* Server state has no path.
RouteOf_EmptyOnServer(rt) == IF rt = "Server" THEN "" ELSE rt

\* The route match of freeze(), Server arm included.
RouteOf(rt) == IF rt = "Server" THEN "SERVER" ELSE rt

\* thaw() that empties the pending slot when the string does not parse.
ThawSlot_ClearsOnError(fa, s, prefs) ==
    LET app == ParseFrozenApp(s) IN
    IF app = None THEN None ELSE Some([app |-> app[1], prefs |-> prefs])

\* thaw() that keeps the pending page entries the new snapshot has no entry
\* for.
ThawSlot_Merges(fa, s, prefs) ==
    LET app == ParseFrozenApp(s) IN
    IF app = None THEN fa
    ELSE IF fa = None THEN Some([app |-> app[1], prefs |-> prefs])
    ELSE LET old == fa[1].app.page_state_store
             new == app[1].page_state_store IN
         Some([app |-> [app[1] EXCEPT !.page_state_store =
                            [u \in DOMAIN old \cup DOMAIN new |->
                                IF u \in DOMAIN new THEN new[u] ELSE old[u]]],
               prefs |-> prefs])

\* thaw(): the pending slot after the call.
ThawSlot(fa, s, prefs) ==
    LET app == ParseFrozenApp(s) IN
    IF app = None THEN fa ELSE Some([app |-> app[1], prefs |-> prefs])

\* thaw() that reloads the current page before it navigates away.
ThawNav_ReloadsToo(curr_route, route) ==
    IF curr_route = route \/ route = "SERVER"
    THEN <<[cmd |-> "reload", to |-> curr_route]>>
    ELSE <<[cmd |-> "reload", to |-> curr_route],
           [cmd |-> "navigate", to |-> route]>>

\* thaw(): the router commands issued once the slot is set, on a route.
ThawNav(curr_route, route) ==
    IF curr_route = route \/ route = "SERVER"
    THEN <<[cmd |-> "reload", to |-> curr_route]>>
    ELSE <<[cmd |-> "navigate", to |-> route]>>

\* thaw() that reloads where the router's load state is Server.
ThawEnd_ReloadsOnServer(rt, s) ==
    LET app == ParseFrozenApp(s) IN
    IF app = None THEN [kind |-> "Err", nav |-> <<>>]
    ELSE IF rt = "Server"
    THEN [kind |-> "Ok", nav |-> <<[cmd |-> "reload", to |-> rt]>>]
    ELSE [kind |-> "Ok", nav |-> ThawNav(rt, app[1].route)]

\* thaw(): how the call ends and which router commands it issued.
ThawEnd(rt, s) ==
    LET app == ParseFrozenApp(s) IN
    IF app = None THEN [kind |-> "Err", nav |-> <<>>]
    ELSE IF rt = "Server" THEN [kind |-> "Panic", nav |-> <<>>]
    ELSE [kind |-> "Ok", nav |-> ThawNav(rt, app[1].route)]

\* thaw() that registers the page entries of the snapshot right away.
ThawLive_Eager(ps, gs, s) ==
    [ps |-> [u \in URLs |->
                IF /\ ParseFrozenApp(s) # None
                   /\ u \in DOMAIN s.page_state_store
                   /\ Deserialize("A", s.page_state_store[u]) # None
                THEN AddState(ps, u, Deserialize("A", s.page_state_store[u])[1])[u]
                ELSE ps[u]],
     gs |-> gs]

\* thaw() that starts the page state store and the global state afresh
\* when it stages a snapshot.
ThawLive_StartsAfresh(ps, gs, s) ==
    IF ParseFrozenApp(s) = None THEN [ps |-> ps, gs |-> gs]
    ELSE [ps |-> [u \in URLs |-> NoEntry], gs |-> None]

\* thaw(): the live stores after the call.
ThawLive(ps, gs, s) == [ps |-> ps, gs |-> gs]

\* What thaw() finds pending: nothing, the pair it is about to stage, or
\* another pair.
Pending(fa, s, prefs) ==
    IF fa = None THEN "nothing"
    ELSE IF fa = ThawSlot(None, s, prefs) THEN "same"
    ELSE "other"

\* A call of thaw(s, prefs).
Thaw(s, prefs) ==
    /\ UNCHANGED <<restored, preload, fetches>>
    /\ Ready
    /\ frozen_app' = ThawSlot(frozen_app, s, prefs)
    /\ page_state_store' = ThawLive(page_state_store, global_state, s).ps
    /\ global_state' = ThawLive(page_state_store, global_state, s).gs
    /\ alive' = (ThawEnd(router, s).kind # "Panic")
    /\ consumed' = IF ParseFrozenApp(s) = None THEN consumed ELSE {}
    /\ missed' = IF ParseFrozenApp(s) = None THEN missed ELSE {}
    /\ frozen_from' = IF ParseFrozenApp(s) = None THEN frozen_from ELSE None
    /\ last' = Call("thaw", "-", "-", Some([s |-> s, prefs |-> prefs]),
                    ThawEnd(router, s).kind, None, "-", ThawEnd(router, s).nav,
                    Some(Pending(frozen_app, s, prefs)))
    /\ UNCHANGED <<router, tasks, running>>

\* freeze() that files the state of each page under the URL of another page
\* that has state.
FreezeString_SwapsPages(rt, ps, gs) ==
    LET has == {x \in URLs : ps[x].st # None}
        other(u) == IF has \ {u} = {} THEN u ELSE CHOOSE x \in has \ {u} : TRUE IN
    FrozenAppToString([global_state |-> FreezeGlobal(gs),
                       route |-> RouteOf(rt),
                       page_state_store |->
                           [u \in has |-> FreezeValue(ps[other(u)].st[1])]])

\* freeze() that writes a page entry for every URL, the literal "None" for
\* a page without state.
FreezeString_EveryPage(rt, ps, gs) ==
    FrozenAppToString([global_state |-> FreezeGlobal(gs),
                       route |-> RouteOf(rt),
                       page_state_store |->
                           [u \in URLs |-> IF ps[u].st = None THEN NoneStr
                                           ELSE FreezeValue(ps[u].st[1])]])

\* freeze(): the string returned.
FreezeString(rt, ps, gs) ==
    FrozenAppToString([global_state |-> FreezeGlobal(gs),
                       route |-> RouteOf(rt),
                       page_state_store |-> FreezeToHashMap(ps)])

\* freeze() that takes the pending frozen app out of its slot.
FreezeEffect_TakesPending(st) == [st EXCEPT !.frozen_app = None]

\* freeze(): the stores and the pending slot afterwards.
FreezeEffect(st) == st

\* A call of freeze().
Freeze ==
    /\ UNCHANGED <<restored, preload, fetches>>
    /\ Ready
    /\ LET st == FreezeEffect([router |-> router,
                               page_state_store |-> page_state_store,
                               global_state |-> global_state,
                               frozen_app |-> frozen_app]) IN
       /\ router' = st.router
       /\ page_state_store' = st.page_state_store
       /\ global_state' = st.global_state
       /\ frozen_app' = st.frozen_app
    /\ last' = Call("freeze", "-", "-", None, "Str",
                    Some(FreezeString(router, page_state_store, global_state)),
                    "-", <<>>, None)
    /\ UNCHANGED <<alive, consumed, missed, frozen_from, tasks, running>>

\* A call of thaw(s, prefs) where s is the string the freeze() call that has
\* just returned gave its caller.
ThawFrozen(prefs) ==
    /\ UNCHANGED <<restored, preload, fetches>>
    /\ alive
    /\ last.op = "freeze"
    /\ LET s == last.val[1] IN
       /\ frozen_app' = ThawSlot(frozen_app, s, prefs)
       /\ page_state_store' = ThawLive(page_state_store, global_state, s).ps
       /\ global_state' = ThawLive(page_state_store, global_state, s).gs
       /\ alive' = (ThawEnd(router, s).kind # "Panic")
       /\ consumed' = IF ParseFrozenApp(s) = None THEN consumed ELSE {}
       /\ missed' = IF ParseFrozenApp(s) = None THEN missed ELSE {}
       /\ frozen_from' =
              IF ParseFrozenApp(s) = None THEN frozen_from
              ELSE Some([page |-> [u \in URLs |-> page_state_store[u].st],
                         global |-> global_state])
       /\ last' = Call("thaw", "-", "-", Some([s |-> s, prefs |-> prefs]),
                       ThawEnd(router, s).kind, None, "-", ThawEnd(router, s).nav,
                       Some(Pending(frozen_app, s, prefs)))
    /\ UNCHANGED <<router, tasks, running>>

\* ------------------------------------------------------------ registration
\* register_page_state_str that clears the state of the page when the
\* string does not deserialize.
RegisterPageStateStr_ClearsOnError(u, R, s) ==
    /\ UNCHANGED <<preload, fetches>>
    /\ restored' = IF Deserialize(R, s) # None /\ ~AddStateOk(page_state_store, u)
                   THEN restored ELSE restored \ {u}
    /\ Ready
    /\ LET rx == Deserialize(R, s) IN
       IF rx = None
       THEN /\ last' = Call("register_page", u, R, Some(s), "Err", None, "-", <<>>,
                            page_state_store[u].st)
            /\ page_state_store' = [page_state_store EXCEPT ![u] = NoEntry]
       ELSE /\ page_state_store' = AddState(page_state_store, u, rx[1])
            /\ last' = Call("register_page", u, R, Some(s), "Ok", rx, "-", <<>>,
                            page_state_store[u].st)
    /\ UNCHANGED <<router, global_state, frozen_app, alive, consumed, missed,
                   frozen_from, tasks, running>>

\* A call of register_page_state_str::<R>(u, s).
RegisterPageStateStr(u, R, s) ==
    /\ UNCHANGED <<preload, fetches>>
    /\ restored' = IF Deserialize(R, s) # None /\ AddStateOk(page_state_store, u)
                   THEN restored \ {u} ELSE restored
    /\ Ready
    /\ LET rx == Deserialize(R, s) IN
       IF rx = None
       THEN /\ last' = Call("register_page", u, R, Some(s), "Err", None, "-", <<>>,
                            page_state_store[u].st)
            /\ UNCHANGED page_state_store
       ELSE /\ page_state_store' = AddState(page_state_store, u, rx[1])
            /\ last' = Call("register_page", u, R, Some(s), "Ok", rx, "-", <<>>,
                            page_state_store[u].st)
    /\ UNCHANGED <<router, global_state, frozen_app, alive, consumed, missed,
                   frozen_from, tasks, running>>

\* register_global_state_str that keeps an active global state that is
\* already there.
RegisterGlobalStateStr_KeepsExisting(R, s) ==
    /\ UNCHANGED <<preload, fetches>>
    /\ restored' = IF Deserialize(R, s) # None /\ global_state = None
                   THEN restored \ {"GLOBAL"} ELSE restored
    /\ Ready
    /\ LET rx == Deserialize(R, s) IN
       IF rx = None
       THEN /\ last' = Call("register_global", "-", R, Some(s), "Err", None, "-",
                            <<>>, global_state)
            /\ UNCHANGED global_state
       ELSE /\ global_state' = IF global_state = None THEN rx ELSE global_state
            /\ last' = Call("register_global", "-", R, Some(s), "Ok", rx, "-",
                            <<>>, global_state)
    /\ UNCHANGED <<router, page_state_store, frozen_app, alive, consumed,
                   missed, frozen_from, tasks, running>>

\* A call of register_global_state_str::<R>(s).
RegisterGlobalStateStr(R, s) ==
    /\ UNCHANGED <<preload, fetches>>
    /\ restored' = IF Deserialize(R, s) # None
                   THEN restored \ {"GLOBAL"} ELSE restored
    /\ Ready
    /\ LET rx == Deserialize(R, s) IN
       IF rx = None
       THEN /\ last' = Call("register_global", "-", R, Some(s), "Err", None, "-",
                            <<>>, global_state)
            /\ UNCHANGED global_state
       ELSE /\ global_state' = rx
            /\ last' = Call("register_global", "-", R, Some(s), "Ok", rx, "-",
                            <<>>, global_state)
    /\ UNCHANGED <<router, page_state_store, frozen_app, alive, consumed,
                   missed, frozen_from, tasks, running>>

\* register_page_no_state that returns without telling the page state store.
RegisterPageNoState_Forgets(u) ==
    /\ UNCHANGED <<restored, preload, fetches>>
    /\ Ready
    /\ last' = Call("register_no_state", u, "-", None, "Unit", None, "-", <<>>,
                    page_state_store[u].st)
    /\ UNCHANGED <<router, page_state_store, global_state, frozen_app, alive,
                   consumed, missed, frozen_from, tasks, running>>

\* A call of register_page_no_state(u).
RegisterPageNoState(u) ==
    /\ UNCHANGED <<preload, fetches>>
    /\ restored' = restored \ {u}
    /\ Ready
    /\ page_state_store' = SetStateNever(page_state_store, u)
    /\ last' = Call("register_no_state", u, "-", None, "Unit", None, "-", <<>>,
                    page_state_store[u].st)
    /\ UNCHANGED <<router, global_state, frozen_app, alive, consumed, missed,
                   frozen_from, tasks, running>>

\* ------------------------------------------------------------------- tasks
\* Reconciliation calls made by the tasks of the single-threaded event loop,
\* taken one piece of code at a time. A task gives up the event loop only
\* where its code awaits.

\* get_frozen_page_state_and_register that awaits between reading the frozen
\* entry and registering it.
TaskYields_BeforeRegister(pc) == pc = "register"

\* Whether the code at pc starts with an await: the reconciliation functions
\* are plain (not async) functions and await nowhere.
TaskYields(pc) == FALSE

\* Who has the event loop once task t stands at pc.
Handoff(t, pc) == IF pc = "idle" \/ TaskYields(pc) THEN NoTask ELSE t

\* Task t can run: the event loop is free or t has it.
CanRun(t) == alive /\ running \in {t, NoTask}

\* Task t calls get_active_or_frozen_page_state::<R>(u): the code up to the
\* call of the frozen getter, or the whole call when that is not reached.
TaskCall(t, u, R) ==
    /\ UNCHANGED <<restored, preload, fetches>>
    /\ Ready
    /\ running = NoTask
    /\ tasks[t].pc = "idle"
    /\ LET a == GetActivePageState(page_state_store, u, R)
           nxt == IF frozen_app = None THEN TaskIdle(u, R, a, FALSE)
                  ELSE IF ShouldUseFrozenState(frozen_app[1].prefs.page, u)
                  THEN TaskAt("lookup", u, R, None)
                  ELSE IF a # None THEN TaskIdle(u, R, a, FALSE)
                  ELSE TaskAt("lookup", u, R, None) IN
       /\ tasks' = [tasks EXCEPT ![t] = nxt]
       /\ running' = Handoff(t, nxt.pc)
    /\ UNCHANGED <<router, page_state_store, global_state, frozen_app, alive,
                   consumed, missed, frozen_from, last>>

\* Task t, in get_frozen_page_state_and_register: the check of the thaw
\* preferences, the lookup of the entry and its deserialization.
TaskLookup(t) ==
    /\ UNCHANGED <<restored, preload, fetches>>
    /\ CanRun(t)
    /\ tasks[t].pc = "lookup"
    /\ LET u == tasks[t].url
           R == tasks[t].ty
           a == GetActivePageState(page_state_store, u, R)
           nxt == IF frozen_app = None THEN TaskIdle(u, R, None, FALSE)
                  ELSE IF ~ShouldUseFrozenState(frozen_app[1].prefs.page, u)
                  THEN TaskIdle(u, R, None, FALSE)
                  ELSE IF u \notin DOMAIN PendingPagesOf(frozen_app)
                  THEN TaskIdle(u, R, a, FALSE)
                  ELSE LET rx == Deserialize(R, PendingPagesOf(frozen_app)[u]) IN
                       IF rx = None THEN TaskIdle(u, R, a, FALSE)
                       ELSE TaskAt("register", u, R, rx) IN
       /\ tasks' = [tasks EXCEPT ![t] = nxt]
       /\ running' = Handoff(t, nxt.pc)
       /\ missed' = IF PageMiss(frozen_app, u, R) THEN missed \cup {u} ELSE missed
    /\ UNCHANGED <<router, page_state_store, global_state, frozen_app, alive,
                   consumed, frozen_from, last>>

\* Task t, in get_frozen_page_state_and_register: the add_state call.
TaskRegister(t) ==
    /\ UNCHANGED <<restored, preload, fetches>>
    /\ CanRun(t)
    /\ tasks[t].pc = "register"
    /\ LET u == tasks[t].url
           R == tasks[t].ty
           nxt == IF AddStateOk(page_state_store, u)
                  THEN TaskAt("remove", u, R, tasks[t].rx)
                  ELSE TaskIdle(u, R, GetActivePageState(page_state_store, u, R),
                                FALSE) IN
       /\ page_state_store' = AddState(page_state_store, u, tasks[t].rx[1])
       /\ tasks' = [tasks EXCEPT ![t] = nxt]
       /\ running' = Handoff(t, nxt.pc)
    /\ UNCHANGED <<router, global_state, frozen_app, alive, consumed, missed,
                   frozen_from, last>>

\* Task t, in get_frozen_page_state_and_register: the removal of the entry
\* from the frozen app (take().unwrap() panics on an empty slot), and the
\* return of the value.
TaskRemove(t) ==
    /\ UNCHANGED <<preload, fetches>>
    /\ CanRun(t)
    /\ tasks[t].pc = "remove"
    /\ LET u == tasks[t].url IN
       /\ frozen_app' =
              IF frozen_app = None THEN None
              ELSE Some([frozen_app[1] EXCEPT !.app.page_state_store =
                             MapRemove(@, u)])
       /\ alive' = (frozen_app # None)
       /\ consumed' = consumed \cup {u}
       /\ restored' = restored \cup {u}
       /\ tasks' = [tasks EXCEPT ![t] =
                        TaskIdle(u, tasks[t].ty, tasks[t].rx, TRUE)]
       /\ running' = NoTask
    /\ UNCHANGED <<router, page_state_store, global_state, missed, frozen_from,
                   last>>

\* ----------------------------------------------------------------- preload
\* router::match_route: the verdict for a path.
MatchRoute(path) ==
    IF path \in URLs THEN "Found"
    ELSE IF path = "/404" THEN "NotFound"
    ELSE "LocaleDetection"

\* PageStateStore::preload: what the store does for a URL whose preload
\* status is status. It fetches unless the page is cached or a fetch for it
\* is in flight, which the caller then awaits.
PssPreload(status) ==
    IF status \in {"Preloaded", "RoutePreloaded"} THEN "cached"
    ELSE IF status = "InFlight" THEN "await"
    ELSE "fetch"

\* _preload that asks the store for the page whatever the route verdict.
PreloadRoute_FetchesAnyway(verdict, status) == PssPreload(status)

\* _preload that fetches a page that is not cached itself instead of
\* handing the request to the store.
PreloadRoute_OwnFetch(verdict, status) ==
    IF verdict = "NotFound" THEN "PreloadNotFound"
    ELSE IF verdict = "LocaleDetection" THEN "PreloadLocaleDetection"
    ELSE IF status \in {"Preloaded", "RoutePreloaded"} THEN "cached"
    ELSE "fetch"

\* RenderCtx::_preload: the error returned for a verdict other than Found,
\* or else the call of the store's preload.
PreloadRoute(verdict, status) ==
    IF verdict = "NotFound" THEN "PreloadNotFound"
    ELSE IF verdict = "LocaleDetection" THEN "PreloadLocaleDetection"
    ELSE PssPreload(status)

\* Task t calls _preload(path, is_route_preload): the code up to the first
\* suspension, or the whole call when it returns at once.
Preload(t, path, is_route_preload) ==
    /\ alive
    /\ running = NoTask
    /\ tasks[t].pc = "idle"
    /\ LET act == PreloadRoute(MatchRoute(path), preload[path]) IN
       /\ preload' = IF act = "fetch"
                      THEN [preload EXCEPT ![path] = "InFlight"]
                      ELSE preload
       /\ fetches' = IF act = "fetch"
                      THEN [fetches EXCEPT ![path].issued = @ + 1]
                      ELSE fetches
       /\ tasks' = [tasks EXCEPT ![t] =
              CASE act = "fetch" -> PreloadAt("fetching", path, is_route_preload)
                [] act = "await" -> PreloadAt("awaiting", path, is_route_preload)
                [] act = "cached" -> PreloadIdle(path, Some("Ok"))
                [] OTHER -> PreloadIdle(path, Some(act))]
    /\ UNCHANGED <<router, page_state_store, global_state, frozen_app, alive,
                   consumed, missed, frozen_from, restored, running, last>>

\* The transport answers the fetch task t issued: the store caches the page
\* and the preload of t resolves.
FetchDone(t) ==
    /\ alive
    /\ running = NoTask
    /\ tasks[t].pc = "fetching"
    /\ LET path == tasks[t].url IN
       /\ preload' = [preload EXCEPT ![path] =
                          IF tasks[t].rx[1] THEN "RoutePreloaded"
                          ELSE "Preloaded"]
       /\ fetches' = [fetches EXCEPT ![path].stored = @ + 1]
       /\ tasks' = [tasks EXCEPT ![t] = PreloadIdle(path, Some("Ok"))]
    /\ UNCHANGED <<router, page_state_store, global_state, frozen_app, alive,
                   consumed, missed, frozen_from, restored, running, last>>

\* The fetch task t awaits is over: the preload of t resolves.
AwaitDone(t) ==
    /\ alive
    /\ running = NoTask
    /\ tasks[t].pc = "awaiting"
    /\ preload[tasks[t].url] # "InFlight"
    /\ tasks' = [tasks EXCEPT ![t] = PreloadIdle(tasks[t].url, Some("Ok"))]
    /\ UNCHANGED <<router, page_state_store, global_state, frozen_app, alive,
                   consumed, missed, frozen_from, restored, preload, fetches,
                   running, last>>

\* ------------------------------------------------------------------ router
\* The router finishes loading the page at path p.
RouterLoad(p) ==
    /\ UNCHANGED <<restored, preload, fetches>>
    /\ Ready
    /\ router # p
    /\ router' = p
    /\ UNCHANGED <<page_state_store, global_state, frozen_app, alive,
                   consumed, missed, frozen_from, tasks, running, last>>

\* The caller takes the result of the call that has returned and goes on.
Return ==
    /\ UNCHANGED <<restored, preload, fetches>>
    /\ alive
    /\ last # Idle
    /\ last' = Idle
    /\ UNCHANGED <<router, page_state_store, global_state, frozen_app, alive,
                   consumed, missed, frozen_from, tasks, running>>

Next ==
    \/ \E u \in URLs, R \in ReqTypes : GetActiveOrFrozenPageState(u, R)
    \/ \E R \in ReqTypes : GetActiveOrFrozenGlobalState(R)
    \/ \E s \in ThawStrs, prefs \in ThawPrefsSet : Thaw(s, prefs)
    \/ Freeze
    \/ \E u \in URLs, R \in ReqTypes, s \in RegStrs : RegisterPageStateStr(u, R, s)
    \/ \E R \in ReqTypes, s \in RegStrs : RegisterGlobalStateStr(R, s)
    \/ \E u \in URLs : RegisterPageNoState(u)
    \/ \E p \in URLs : RouterLoad(p)
    \/ Return

Spec == Init /\ [][Next]_vars

\* The program whose thaw() calls are given the strings its own freeze()
\* calls returned.
NextRoundTrip ==
    \/ \E u \in URLs, R \in ReqTypes : GetActiveOrFrozenPageState(u, R)
    \/ \E R \in ReqTypes : GetActiveOrFrozenGlobalState(R)
    \/ Freeze
    \/ \E prefs \in ThawPrefsSet : ThawFrozen(prefs)
    \/ \E u \in URLs, R \in ReqTypes, s \in StateStrs : RegisterPageStateStr(u, R, s)
    \/ \E R \in ReqTypes, s \in StateStrs : RegisterGlobalStateStr(R, s)
    \/ \E u \in URLs : RegisterPageNoState(u)
    \/ \E p \in URLs : RouterLoad(p)
    \/ Return

SpecRoundTrip == Init /\ [][NextRoundTrip]_vars

\* The program whose page reconciliation calls are made by the tasks of the
\* event loop; every other call runs when no task is inside a call.
NextTasks ==
    \/ \E t \in Tasks, u \in URLs, R \in ReqTypes : TaskCall(t, u, R)
    \/ \E t \in Tasks : TaskLookup(t)
    \/ \E t \in Tasks : TaskRegister(t)
    \/ \E t \in Tasks : TaskRemove(t)
    \/ running = NoTask /\ \E s \in TaskThawStrs, prefs \in TaskThawPrefs :
                                Thaw(s, prefs)
    \/ running = NoTask /\ \E u \in URLs, R \in ReqTypes, s \in RegStrs :
                                RegisterPageStateStr(u, R, s)
    \/ running = NoTask /\ \E u \in URLs : RegisterPageNoState(u)
    \/ running = NoTask /\ \E p \in URLs : RouterLoad(p)
    \/ running = NoTask /\ Return

SpecTasks == Init /\ [][NextTasks]_vars

\* The program whose callers may repeat a reconciliation call at once.
NextRepeat ==
    \/ Next
    \/ GetActiveOrFrozenPageStateAgain
    \/ GetActiveOrFrozenGlobalStateAgain

SpecRepeat == Init /\ [][NextRepeat]_vars

\* The program whose reconciliation calls ask for state at either type.
NextTyped ==
    \/ \E u \in URLs, R \in Types : GetActiveOrFrozenPageState(u, R)
    \/ \E R \in Types : GetActiveOrFrozenGlobalState(R)
    \/ \E s \in TypedThawStrs, prefs \in ThawPrefsSet : Thaw(s, prefs)
    \/ \E u \in URLs, R \in ReqTypes, s \in RegStrs : RegisterPageStateStr(u, R, s)
    \/ \E R \in ReqTypes, s \in RegStrs : RegisterGlobalStateStr(R, s)
    \/ \E p \in URLs : RouterLoad(p)
    \/ Return

SpecTyped == Init /\ [][NextTyped]_vars

\* The program whose tasks preload pages. A fetch that was issued is
\* answered, and a task whose awaited fetch is over goes on.
NextPreload ==
    \/ \E t \in Tasks, path \in Paths, is_route_preload \in BOOLEAN :
           Preload(t, path, is_route_preload)
    \/ \E t \in Tasks : FetchDone(t)
    \/ \E t \in Tasks : AwaitDone(t)

SpecPreload == Init /\ [][NextPreload]_vars

SpecPreloadFair ==
    /\ SpecPreload
    /\ \A t \in Tasks : WF_vars(FetchDone(t)) /\ WF_vars(AwaitDone(t))

\* ======================================================================
\* Properties
\* ======================================================================
\* The page entries of the pending frozen app.
PendingPages == frozen_app[1].app.page_state_store
\* The snapshot string and the preferences given to the thaw() that has
\* just returned.
ThawArg == last.arg[1]

\* C1: exactly-once page consumption. What has been consumed since the last
\* thaw is no longer in the pending snapshot; the reconciliation call that
\* takes the frozen entry of u removes it; and every later call for u
\* returns what the page state store holds, takes nothing from the snapshot
\* and leaves store and snapshot as they are.
C1_Gone ==
    \A u \in consumed \cap URLs :
        frozen_app # None /\ u \notin DOMAIN PendingPages
C1_Step ==
    \A u \in URLs :
        (last'.op = "get_page" /\ last'.url = u) =>
            /\ last'.took = "frozen" =>
                   /\ frozen_app # None
                   /\ u \in DOMAIN PendingPages
                   /\ u \notin DOMAIN PendingPages'
                   /\ u \in consumed'
            /\ u \in consumed =>
                   /\ last'.took # "frozen"
                   /\ last'.val = GetState(page_state_store, u, last'.ty)
                   /\ UNCHANGED <<page_state_store, frozen_app>>
C1_ExactlyOncePage == [](C1_Gone) /\ [][C1_Step]_vars

\* C1 witness: a reconciliation call for a page whose frozen entry was
\* consumed earlier has returned the active state.
C1_Witness ==
    /\ last.op = "get_page"
    /\ last.url \in consumed
    /\ last.took = "active"
    /\ last.val = page_state_store[last.url].st

\* C2: prefer-frozen precedence. With a snapshot pending that prefers frozen
\* state for u and holds a deserializable entry for it, and u holding active
\* state and not being stateless, reconciliation returns the frozen value
\* and the page state store holds that value afterwards.
C2_Step ==
    \A u \in URLs, R \in Types :
        ( /\ last'.op = "get_page" /\ last'.url = u /\ last'.ty = R
          /\ frozen_app # None
          /\ ShouldUseFrozenState(frozen_app[1].prefs.page, u)
          /\ u \in DOMAIN PendingPages
          /\ Deserialize(R, PendingPages[u]) # None
          /\ page_state_store[u].st # None
          /\ page_state_store[u].flag # "Never" )
        => /\ last'.kind = "Some"
           /\ last'.val = Deserialize(R, PendingPages[u])
           /\ page_state_store'[u].st = Deserialize(R, PendingPages[u])
C2_PreferFrozen == [][C2_Step]_vars

\* C2 witness: a call has returned a frozen value that replaced a different
\* active one.
C2_Witness ==
    /\ last.op = "get_page"
    /\ last.took = "frozen"
    /\ last.pre # None
    /\ last.pre # last.val
    /\ page_state_store[last.url].st = last.val
    /\ ShouldUseFrozenState(frozen_app[1].prefs.page, last.url)

\* C3: prefer-active fallback to frozen. With a snapshot pending that
\* prefers active state for u, no active state for u, a deserializable
\* frozen entry for u and u not stateless, reconciliation returns the frozen
\* value, registers it and removes the entry from the snapshot.
C3_Step ==
    \A u \in URLs, R \in Types :
        ( /\ last'.op = "get_page" /\ last'.url = u /\ last'.ty = R
          /\ frozen_app # None
          /\ ~ShouldUseFrozenState(frozen_app[1].prefs.page, u)
          /\ page_state_store[u].st = None
          /\ page_state_store[u].flag # "Never"
          /\ u \in DOMAIN PendingPages
          /\ Deserialize(R, PendingPages[u]) # None )
        => /\ last'.kind = "Some"
           /\ last'.val = Deserialize(R, PendingPages[u])
           /\ page_state_store'[u].st = Deserialize(R, PendingPages[u])
           /\ u \notin DOMAIN PendingPages'
C3_FallbackToFrozen == [][C3_Step]_vars

\* C4: prefer-active precedence. With a snapshot pending that prefers
\* active state for u, and both active state and a frozen entry for u,
\* reconciliation returns the active state and changes neither the snapshot
\* nor the page state store.
C4_Step ==
    \A u \in URLs, R \in Types :
        ( /\ last'.op = "get_page" /\ last'.url = u /\ last'.ty = R
          /\ frozen_app # None
          /\ ~ShouldUseFrozenState(frozen_app[1].prefs.page, u)
          /\ GetState(page_state_store, u, R) # None
          /\ u \in DOMAIN PendingPages )
        => /\ last'.kind = "Some"
           /\ last'.val = page_state_store[u].st
           /\ UNCHANGED <<frozen_app, page_state_store>>
C4_PreferActive == [][C4_Step]_vars

\* C4 witness: a call has returned the active state under a prefer-active
\* policy while the frozen entry of the page is still pending.
C4_Witness ==
    /\ last.op = "get_page"
    /\ last.took = "active"
    /\ last.val = last.pre
    /\ frozen_app # None
    /\ ~ShouldUseFrozenState(frozen_app[1].prefs.page, last.url)
    /\ last.url \in DOMAIN PendingPages
    /\ Deserialize(last.ty, PendingPages[last.url]) # None

\* C5: the global fallback is symmetric. With a snapshot pending, no
\* preference for the frozen global state, no active global state of the
\* requested type and a frozen global state that deserializes, global
\* reconciliation returns the frozen value and installs it; and with a
\* preference for frozen and a frozen global state of "None" it returns the
\* active global state.
C5_Step ==
    \A R \in Types :
        (last'.op = "get_global" /\ last'.ty = R /\ frozen_app # None) =>
            /\ ( /\ ~frozen_app[1].prefs.global_prefer_frozen
                 /\ GetActiveGlobalState(global_state, R) = None
                 /\ frozen_app[1].app.global_state # NoneStr
                 /\ Deserialize(R, frozen_app[1].app.global_state) # None )
               => /\ last'.val = Deserialize(R, frozen_app[1].app.global_state)
                  /\ global_state' = Deserialize(R, frozen_app[1].app.global_state)
            /\ ( /\ frozen_app[1].prefs.global_prefer_frozen
                 /\ frozen_app[1].app.global_state = NoneStr )
               => last'.val = GetActiveGlobalState(global_state, R)
C5_GlobalFallback == [][C5_Step]_vars

\* C6: a malformed snapshot. When the string given to thaw() does not parse,
\* the call returns an error, issues no router command and leaves the
\* pending slot, the page state store and the global state as they were.
C6_Step ==
    (last'.op = "thaw" /\ ParseFrozenApp(last'.arg[1].s) = None) =>
        /\ last'.kind = "Err"
        /\ last'.nav = <<>>
        /\ UNCHANGED <<frozen_app, page_state_store, global_state>>
C6_MalformedThaw == [][C6_Step]_vars

\* C6 witness: a thaw() has failed while another snapshot was pending, and
\* that snapshot is still pending.
C6_Witness ==
    /\ last.op = "thaw"
    /\ last.kind = "Err"
    /\ last.pre = Some("other")
    /\ frozen_app # None

\* C7: thaw replaces the pending slot wholesale. After a successful
\* thaw(s, p) the slot holds exactly the parsed s with p, and no other call
\* changes the preferences of the pending slot.
C7_Step ==
    /\ (last'.op = "thaw" /\ last'.kind = "Ok") =>
           frozen_app' = Some([app |-> ParseFrozenApp(last'.arg[1].s)[1],
                               prefs |-> last'.arg[1].prefs])
    /\ (last'.op # "thaw" /\ frozen_app # None) =>
           /\ frozen_app' # None
           /\ frozen_app'[1].prefs = frozen_app[1].prefs
C7_ThawReplaces == [][C7_Step]_vars

\* C7 witness: a successful thaw() has replaced a different pending pair.
C7_Witness ==
    /\ last.op = "thaw"
    /\ last.kind = "Ok"
    /\ last.pre = Some("other")
    /\ frozen_app = Some([app |-> ParseFrozenApp(ThawArg.s)[1],
                          prefs |-> ThawArg.prefs])

\* C8: thaw navigation. A successful thaw issues exactly one router
\* command: a reload of the current route when the snapshot's route is the
\* current route or "SERVER", and a navigation to the snapshot's route
\* otherwise.
C8_ThawNavigates ==
    (last.op = "thaw" /\ last.kind = "Ok") =>
        LET route == ParseFrozenApp(ThawArg.s)[1].route IN
        /\ Len(last.nav) = 1
        /\ IF route = router \/ route = "SERVER"
           THEN last.nav[1] = [cmd |-> "reload", to |-> router]
           ELSE last.nav[1] = [cmd |-> "navigate", to |-> route]

\* C8 witness: a successful thaw() of a snapshot frozen on another route has
\* navigated there.
C8_Witness ==
    /\ last.op = "thaw"
    /\ last.kind = "Ok"
    /\ frozen_app[1].app.route # router
    /\ last.nav = <<[cmd |-> "navigate", to |-> frozen_app[1].app.route]>>

\* C9: thaw only stages. A thaw() call leaves the page state store and the
\* active global state as they were, and the snapshot it stages has all the
\* entries of the string it parsed.
C9_Step ==
    last'.op = "thaw" =>
        /\ UNCHANGED <<page_state_store, global_state>>
        /\ last'.kind # "Err" =>
               /\ frozen_app'[1].app.page_state_store =
                      ParseFrozenApp(last'.arg[1].s)[1].page_state_store
               /\ frozen_app'[1].app.global_state =
                      ParseFrozenApp(last'.arg[1].s)[1].global_state
               /\ consumed' = {}
C9_ThawOnlyStages == [][C9_Step]_vars

\* C9 witness: a successful thaw() has staged a snapshot with an entry for
\* every page and a global state, while a page and the global slot hold
\* active state other than the frozen one and another page holds none.
C9_Witness ==
    /\ last.op = "thaw"
    /\ last.kind = "Ok"
    /\ DOMAIN PendingPages = URLs
    /\ \A u \in URLs : Deserialize("A", PendingPages[u]) # None
    /\ Deserialize("A", frozen_app[1].app.global_state) # None
    /\ \E u \in URLs :
           /\ page_state_store[u].st # None
           /\ page_state_store[u].st # Deserialize("A", PendingPages[u])
    /\ \E u \in URLs : page_state_store[u].st = None
    /\ global_state # None
    /\ global_state # Deserialize("A", frozen_app[1].app.global_state)

\* C10: freeze is read-only. A freeze() call leaves the page state store,
\* the active global state, the router state and the pending slot as they
\* were.
C10_Step ==
    last'.op = "freeze" =>
        UNCHANGED <<page_state_store, global_state, router, frozen_app>>
C10_FreezeReadOnly == [][C10_Step]_vars

\* C10 witness: freeze() has returned with state in both live stores and a
\* snapshot pending.
C10_Witness ==
    /\ last.op = "freeze"
    /\ frozen_app # None
    /\ \E u \in URLs : page_state_store[u].st # None
    /\ global_state # None

\* C11: freeze/thaw round trip. After a freeze() whose result was at once
\* given to a successful thaw() that prefers frozen state for the global
\* state and every page, the first reconciliation call for a page that had
\* active state at the freeze and has not been declared stateless since
\* returns the value the page had at the freeze, and the first global
\* reconciliation call returns the global value of the freeze if there was
\* one.
C11_Step ==
    ( /\ frozen_from # None
      /\ frozen_app # None
      /\ frozen_app[1].prefs = [global_prefer_frozen |-> TRUE, page |-> URLs] )
    => /\ \A u \in URLs :
              ( /\ last'.op = "get_page" /\ last'.url = u
                /\ frozen_from[1].page[u] # None
                /\ last'.ty = frozen_from[1].page[u][1].ty
                /\ u \notin consumed
                /\ page_state_store[u].flag # "Never" )
              => last'.val = frozen_from[1].page[u]
       /\ ( /\ last'.op = "get_global"
            /\ frozen_from[1].global # None
            /\ last'.ty = frozen_from[1].global[1].ty
            /\ "GLOBAL" \notin consumed )
          => last'.val = frozen_from[1].global
C11_RoundTrip == [][C11_Step]_vars

\* C11 witness: after a round trip, a page whose state was replaced after
\* the thaw has got back the value it had at the freeze.
C11_Witness ==
    /\ last.op = "get_page"
    /\ last.took = "frozen"
    /\ frozen_from # None
    /\ frozen_app[1].prefs = [global_prefer_frozen |-> TRUE, page |-> URLs]
    /\ last.val = frozen_from[1].page[last.url]
    /\ last.pre # None
    /\ last.pre # last.val

\* C12: corrupt entry resilience. A reconciliation call for a page whose
\* pending entry does not deserialize changes no entry of the snapshot and
\* nothing in the page state store; and in a snapshot with a corrupt entry
\* for another page, before or after a call has tried that entry, the call
\* for a page with a valid entry (the page preferring frozen state and not
\* being stateless) returns the frozen value, registers it and removes that
\* entry and no other.
C12_Step ==
    \A u \in URLs, R \in Types :
        ( /\ last'.op = "get_page" /\ last'.url = u /\ last'.ty = R
          /\ frozen_app # None
          /\ u \in DOMAIN PendingPages )
        => /\ Deserialize(R, PendingPages[u]) = None
              => UNCHANGED <<frozen_app, page_state_store>>
           /\ ( /\ Deserialize(R, PendingPages[u]) # None
                /\ \E c \in DOMAIN PendingPages \ {u} :
                       Deserialize(R, PendingPages[c]) = None
                /\ ShouldUseFrozenState(frozen_app[1].prefs.page, u)
                /\ page_state_store[u].flag # "Never" )
              => /\ last'.took = "frozen"
                 /\ last'.val = Deserialize(R, PendingPages[u])
                 /\ page_state_store'[u].st = last'.val
                 /\ PendingPages' = MapRemove(PendingPages, u)
                 /\ \A x \in URLs \ {u} :
                        page_state_store'[x] = page_state_store[x]
C12_CorruptEntryResilience == [][C12_Step]_vars

\* C12 witness: a call has consumed the valid entry of a page after another
\* call failed on the corrupt entry of another page, which is still pending.
C12_Witness ==
    /\ last.op = "get_page"
    /\ last.took = "frozen"
    /\ \E c \in missed \cap URLs :
           /\ c # last.url
           /\ c \in DOMAIN PendingPages
           /\ Deserialize(last.ty, PendingPages[c]) = None

\* C13: soft miss on a corrupt page entry. When the pending entry for u does
\* not deserialize, the reconciliation call for u reports no error, returns
\* what the page state store holds for u (or nothing), leaves the entry in
\* the snapshot and leaves the page state store as it was.
C13_Step ==
    \A u \in URLs, R \in Types :
        ( /\ last'.op = "get_page" /\ last'.url = u /\ last'.ty = R
          /\ frozen_app # None
          /\ u \in DOMAIN PendingPages
          /\ Deserialize(R, PendingPages[u]) = None )
        => /\ last'.kind \in {"Some", "None"}
           /\ alive'
           /\ last'.val = GetState(page_state_store, u, R)
           /\ frozen_app' # None
           /\ u \in DOMAIN PendingPages'
           /\ PendingPages'[u] = PendingPages[u]
           /\ UNCHANGED page_state_store
C13_SoftMissPage == [][C13_Step]_vars

\* C13 witness: a call that read a corrupt entry under a prefer-frozen
\* policy has returned the active state of the page, and the entry is still
\* pending.
C13_Witness ==
    /\ last.op = "get_page"
    /\ last.url \in missed
    /\ last.took = "active"
    /\ last.val # None
    /\ last.val = page_state_store[last.url].st
    /\ ShouldUseFrozenState(frozen_app[1].prefs.page, last.url)
    /\ last.url \in DOMAIN PendingPages
    /\ Deserialize(last.ty, PendingPages[last.url]) = None

\* C14: stateless immutability. register_page_no_state(u) leaves u flagged
\* as never receiving state and without a value; a page so flagged holds no
\* value in any later state; and no call changes its flag or gives it a
\* value: register_page_state_str and the consumption of a frozen entry are
\* rejected.
C14_Never ==
    \A u \in URLs :
        page_state_store[u].flag = "Never" => page_state_store[u].st = None
C14_Step ==
    \A u \in URLs :
        /\ (last'.op = "register_no_state" /\ last'.url = u)
               => page_state_store'[u] = [flag |-> "Never", st |-> None]
        /\ page_state_store[u].flag = "Never"
               => /\ page_state_store'[u] = page_state_store[u]
                  /\ (last'.op = "get_page" /\ last'.url = u)
                         => last'.took # "frozen"
C14_StatelessImmutable == [](C14_Never) /\ [][C14_Step]_vars

\* C14 witness: register_page_state_str has returned a value for a page
\* that was declared stateless, and the page still has the flag and no
\* value.
C14_Witness ==
    /\ last.op = "register_page"
    /\ last.kind = "Ok"
    /\ last.val # None
    /\ page_state_store[last.url] = [flag |-> "Never", st |-> None]

\* C15: frozen consumption for a stateless page. When the pending entry for
\* u deserializes but u is flagged as never receiving state, the
\* reconciliation call for u returns nothing, reports no error and does not
\* abort, and the entry stays in the snapshot.
C15_Step ==
    \A u \in URLs, R \in Types :
        ( /\ last'.op = "get_page" /\ last'.url = u /\ last'.ty = R
          /\ frozen_app # None
          /\ u \in DOMAIN PendingPages
          /\ Deserialize(R, PendingPages[u]) # None
          /\ ~AddStateOk(page_state_store, u) )
        => /\ last'.kind = "None"
           /\ last'.val = None
           /\ alive'
           /\ frozen_app' # None
           /\ u \in DOMAIN PendingPages'
           /\ PendingPages'[u] = PendingPages[u]
C15_StatelessConsumption == [][C15_Step]_vars

\* C15 witness: a call for a stateless page that prefers frozen state has
\* returned nothing while the valid entry of the page is still pending.
C15_Witness ==
    /\ last.op = "get_page"
    /\ last.kind = "None"
    /\ page_state_store[last.url].flag = "Never"
    /\ frozen_app # None
    /\ ShouldUseFrozenState(frozen_app[1].prefs.page, last.url)
    /\ last.url \in DOMAIN PendingPages
    /\ Deserialize(last.ty, PendingPages[last.url]) # None

\* C16: exactly-once global consumption. Once the frozen global state has
\* been consumed, the global state of the pending snapshot is "None" until
\* the next thaw; the call that consumes it installs the frozen value as the
\* active global state, whatever was active before; and every later global
\* reconciliation call returns the active global state, takes nothing from
\* the snapshot and leaves the snapshot and the global state as they are.
C16_Gone ==
    "GLOBAL" \in consumed =>
        frozen_app # None /\ frozen_app[1].app.global_state = NoneStr
C16_Step ==
    last'.op = "get_global" =>
        /\ last'.took = "frozen" =>
               /\ frozen_app # None
               /\ last'.val = Deserialize(last'.ty, frozen_app[1].app.global_state)
               /\ last'.val # None
               /\ global_state' = last'.val
               /\ frozen_app'[1].app.global_state = NoneStr
               /\ "GLOBAL" \in consumed'
        /\ "GLOBAL" \in consumed =>
               /\ last'.took # "frozen"
               /\ last'.val = GetActiveGlobalState(global_state, last'.ty)
               /\ UNCHANGED <<global_state, frozen_app>>
C16_ExactlyOnceGlobal == [](C16_Gone) /\ [][C16_Step]_vars

\* C16 witness: a global reconciliation call made after the frozen global
\* state was consumed has returned the active global state.
C16_Witness ==
    /\ last.op = "get_global"
    /\ "GLOBAL" \in consumed
    /\ last.took = "active"
    /\ last.val = global_state
    /\ frozen_app[1].prefs.global_prefer_frozen

\* C17: no snapshot pending. While the pending slot is empty, page
\* reconciliation for a URL returns exactly what the page state store holds
\* for it, global reconciliation returns exactly the active global state,
\* and neither call changes the page state store, the global state or the
\* pending slot.
C17_Step ==
    (frozen_app = None /\ last'.op \in {"get_page", "get_global"}) =>
        /\ last'.op = "get_page" =>
               last'.val = GetState(page_state_store, last'.url, last'.ty)
        /\ last'.op = "get_global" =>
               last'.val = GetActiveGlobalState(global_state, last'.ty)
        /\ last'.took # "frozen"
        /\ UNCHANGED <<page_state_store, global_state, frozen_app>>
C17_NoSnapshot == [][C17_Step]_vars

\* C17 witness: with no snapshot pending, page reconciliation has returned
\* the state the page holds.
C17_Witness ==
    /\ last.op = "get_page"
    /\ frozen_app = None
    /\ last.val # None
    /\ last.val = page_state_store[last.url].st

\* C18: atomic consumption. At most one task is inside a page reconciliation
\* call and it has the event loop; while it is inside, no other task and no
\* other call takes a step; and a call that removes the entry of a page
\* finds it in the snapshot, not yet consumed by any other call: of two
\* calls for the same URL at most one takes the entry.
C18_OneInside ==
    /\ Cardinality({t \in Tasks : tasks[t].pc # "idle"}) <= 1
    /\ \A t \in Tasks : tasks[t].pc # "idle" => running = t
C18_Step ==
    \A t \in Tasks :
        /\ tasks[t].pc # "idle" =>
               /\ \A o \in Tasks \ {t} : tasks'[o] = tasks[o]
               /\ tasks'[t] # tasks[t]
               /\ UNCHANGED <<router, last>>
        /\ (tasks[t].pc = "remove" /\ tasks'[t].pc = "idle") =>
               /\ frozen_app # None
               /\ tasks[t].url \in DOMAIN PendingPages
               /\ tasks[t].url \notin consumed
               /\ tasks[t].url \notin DOMAIN PendingPages'
               /\ tasks'[t].took
C18_AtomicConsumption == [](C18_OneInside) /\ [][C18_Step]_vars

\* C18 witness: two tasks have called for the same page while a snapshot
\* was pending; one took the frozen entry and the other got the value the
\* first one registered.
C18_Witness ==
    /\ frozen_app # None
    /\ \E t \in Tasks, o \in Tasks :
           /\ t # o
           /\ tasks[t].pc = "idle" /\ tasks[o].pc = "idle"
           /\ tasks[t].url = tasks[o].url
           /\ tasks[t].url \in consumed
           /\ tasks[t].took
           /\ ~tasks[o].took
           /\ tasks[o].ret = tasks[t].ret

\* C19: register_page_state_str. When the string does not deserialize into
\* the requested type the call returns an error and leaves the page state
\* store with its flags and the pending slot as they were; when it does and
\* the page is not flagged stateless, the call returns the value the page
\* state store holds for the page afterwards.
C19_Step ==
    \A u \in URLs, R \in Types :
        (last'.op = "register_page" /\ last'.url = u /\ last'.ty = R) =>
            IF Deserialize(R, last'.arg[1]) = None
            THEN /\ last'.kind = "Err"
                 /\ last'.val = None
                 /\ UNCHANGED <<page_state_store, frozen_app>>
            ELSE /\ last'.kind = "Ok"
                 /\ last'.val = Deserialize(R, last'.arg[1])
                 /\ page_state_store[u].flag # "Never" =>
                        /\ page_state_store'[u].st = last'.val
                        /\ GetState(page_state_store', u, R) = last'.val
C20_Step ==
    \A R \in Types :
        (last'.op = "register_global" /\ last'.ty = R) =>
            IF Deserialize(R, last'.arg[1]) = None
            THEN /\ last'.kind = "Err"
                 /\ last'.val = None
                 /\ UNCHANGED global_state
            ELSE /\ last'.kind = "Ok"
                 /\ last'.val = Deserialize(R, last'.arg[1])
                 /\ global_state' = last'.val
C20_RegisterGlobalStr == [][C20_Step]_vars

\* C20 witness: register_global_state_str has replaced a different active
\* global state.
C20_Witness ==
    /\ last.op = "register_global"
    /\ last.kind = "Ok"
    /\ last.pre # None
    /\ last.pre # last.val
    /\ global_state = last.val

\* C21, as claimed: freeze without a route is fatal. A freeze() call made
\* while the router's load state is Server aborts and returns no snapshot.
C21_Step ==
    (last'.op = "freeze" /\ router = "Server") =>
        /\ ~alive'
        /\ last'.val = None
C21_FreezeOnServerAborts == [][C21_Step]_vars

\* C21, amended: a freeze() call made while the router's load state is
\* Server does not abort; it returns a snapshot whose route is "SERVER",
\* with the global state and the page entries of any other freeze.
C21_AmendedStep ==
    (last'.op = "freeze" /\ router = "Server") =>
        /\ alive'
        /\ last'.kind = "Str"
        /\ last'.val # None
        /\ ParseFrozenApp(last'.val[1]) # None
        /\ last'.val[1].route = "SERVER"
        /\ last'.val[1].global_state = FreezeGlobal(global_state)
        /\ last'.val[1].page_state_store = FreezeToHashMap(page_state_store)
C21_FreezeOnServer == [][C21_AmendedStep]_vars

\* C21 witness: freeze() has returned a snapshot with the route "SERVER"
\* and a page entry while the router's load state is Server.
C21_Witness ==
    /\ last.op = "freeze"
    /\ router = "Server"
    /\ alive
    /\ last.val[1].route = "SERVER"
    /\ DOMAIN last.val[1].page_state_store # {}

\* C22: thaw outside an interactive context is fatal. A thaw() call with a
\* string that parses, made while the router's load state is Server,
\* panics: it returns neither Ok nor an error and issues neither a reload
\* nor a navigation.
C22_Step ==
    ( /\ last'.op = "thaw"
      /\ ParseFrozenApp(last'.arg[1].s) # None
      /\ router = "Server" )
    => /\ last'.kind = "Panic"
       /\ ~alive'
       /\ last'.nav = <<>>
C22_ThawOnServerPanics == [][C22_Step]_vars

\* C22 witness: a thaw() of a well-formed snapshot has panicked on the
\* server.
C22_Witness ==
    /\ last.op = "thaw"
    /\ last.kind = "Panic"
    /\ ~alive
    /\ router = "Server"
    /\ ParseFrozenApp(ThawArg.s) # None

\* C25: state from an earlier thaw counts as active. A later thaw() leaves
\* every value that was consumed from an earlier snapshot in the live
\* stores; and under the later thaw's preferences reconciliation returns
\* such a value as active state when the policy prefers active state or
\* the pending snapshot has no entry for it that deserializes.
C25_Step ==
    /\ last'.op = "thaw" =>
           /\ \A u \in restored \cap URLs :
                  /\ page_state_store[u].st # None
                  /\ page_state_store'[u] = page_state_store[u]
           /\ "GLOBAL" \in restored =>
                  global_state # None /\ global_state' = global_state
           /\ restored' = restored
    /\ \A u \in (restored \ consumed) \cap URLs :
           ( /\ last'.op = "get_page" /\ last'.url = u
             /\ last'.ty = page_state_store[u].st[1].ty
             /\ frozen_app # None
             /\ \/ ~ShouldUseFrozenState(frozen_app[1].prefs.page, u)
                \/ u \notin DOMAIN PendingPages
                \/ Deserialize(last'.ty, PendingPages[u]) = None )
           => /\ last'.took = "active"
              /\ last'.val = page_state_store[u].st
              /\ page_state_store'[u] = page_state_store[u]
    /\ ( /\ "GLOBAL" \in restored \ consumed
         /\ last'.op = "get_global"
         /\ last'.ty = global_state[1].ty
         /\ frozen_app # None
         /\ \/ ~frozen_app[1].prefs.global_prefer_frozen
            \/ frozen_app[1].app.global_state = NoneStr
            \/ Deserialize(last'.ty, frozen_app[1].app.global_state) = None )
       => /\ last'.took = "active"
          /\ last'.val = global_state
          /\ global_state' = global_state
C25_EarlierThawIsActive == [][C25_Step]_vars

\* C25 witness: under a later thaw that prefers frozen state for a page but
\* holds a corrupt entry for it, reconciliation has returned the value the
\* page consumed from an earlier snapshot.
C25_Witness ==
    /\ last.op = "get_page"
    /\ last.took = "active"
    /\ last.url \in restored \ consumed
    /\ last.val = page_state_store[last.url].st
    /\ last.val # None
    /\ frozen_app # None
    /\ ShouldUseFrozenState(frozen_app[1].prefs.page, last.url)
    /\ last.url \in DOMAIN PendingPages
    /\ Deserialize(last.ty, PendingPages[last.url]) = None

\* C26: soft miss on a corrupt frozen global state. When the pending
\* snapshot's global_state is not the "None" sentinel and does not
\* deserialize, global reconciliation returns normally with the active
\* global state (or absent) and changes neither the snapshot's global_state
\* string nor the active global state.
C26_Step ==
    \A R \in Types :
        ( /\ last'.op = "get_global" /\ last'.ty = R
          /\ frozen_app # None
          /\ frozen_app[1].app.global_state # NoneStr
          /\ Deserialize(R, frozen_app[1].app.global_state) = None )
        => /\ last'.kind \in {"Some", "None"}
           /\ alive'
           /\ last'.took # "frozen"
           /\ last'.val = GetActiveGlobalState(global_state, R)
           /\ frozen_app' # None
           /\ frozen_app'[1].app.global_state = frozen_app[1].app.global_state
           /\ UNCHANGED global_state
C26_SoftMissGlobal == [][C26_Step]_vars

\* C26 witness: under a prefer-frozen policy a call has read a corrupt
\* frozen global state and returned the active global state, and the
\* corrupt string is still in the snapshot.
C26_Witness ==
    /\ last.op = "get_global"
    /\ "GLOBAL" \in missed
    /\ last.took = "active"
    /\ last.val # None
    /\ last.val = global_state
    /\ frozen_app # None
    /\ frozen_app[1].prefs.global_prefer_frozen
    /\ frozen_app[1].app.global_state # NoneStr
    /\ Deserialize(last.ty, frozen_app[1].app.global_state) = None

\* C23: preload route errors. A preload of a path whose route verdict is
\* not-found or locale detection returns PreloadNotFound or
\* PreloadLocaleDetection to the caller at once: it issues no fetch and
\* changes neither the page state store nor the preload status of any
\* path; such a path is never fetched and never gets a preload status.
C23_Unfetched ==
    \A p \in Paths :
        MatchRoute(p) # "Found" =>
            preload[p] = "None" /\ fetches[p] = [issued |-> 0, stored |-> 0]
C23_Step ==
    \A t \in Tasks :
        ( /\ tasks[t].pc = "idle" /\ tasks'[t] # tasks[t]
          /\ MatchRoute(tasks'[t].url) # "Found" )
        => /\ tasks'[t].pc = "idle"
           /\ tasks'[t].ret =
                  Some(IF MatchRoute(tasks'[t].url) = "NotFound"
                       THEN "PreloadNotFound" ELSE "PreloadLocaleDetection")
           /\ UNCHANGED <<preload, fetches, page_state_store, global_state,
                          frozen_app, alive>>
C23_PreloadRouteErrors == [](C23_Unfetched) /\ [][C23_Step]_vars

\* C23 witness: one preload has returned PreloadNotFound and another
\* PreloadLocaleDetection, with no fetch issued for either path.
C23_Witness ==
    /\ tasks["t1"] = PreloadIdle("/404", Some("PreloadNotFound"))
    /\ tasks["t2"] = PreloadIdle("/", Some("PreloadLocaleDetection"))
    /\ fetches["/404"].issued = 0
    /\ fetches["/"].issued = 0

\* C24: preload de-duplication. A preload of a URL issued while a fetch for
\* it is in flight issues no fetch and awaits the outstanding one; it
\* resolves only once that fetch is over; at most one fetch is ever issued
\* for the URL and its state is cached at most once; and a preload that
\* awaits resolves eventually, with the state cached by exactly one fetch.
C24_Once ==
    \A u \in URLs :
        /\ fetches[u].issued <= 1
        /\ fetches[u].stored <= fetches[u].issued
        /\ \A t \in Tasks :
               (tasks[t] = PreloadIdle(u, Some("Ok"))) =>
                   /\ preload[u] \in {"Preloaded", "RoutePreloaded"}
                   /\ fetches[u] = [issued |-> 1, stored |-> 1]
C24_Step ==
    \A t \in Tasks :
        /\ ( /\ tasks[t].pc = "idle" /\ tasks'[t] # tasks[t]
             /\ tasks'[t].url \in URLs
             /\ preload[tasks'[t].url] = "InFlight" )
           => /\ tasks'[t].pc = "awaiting"
              /\ UNCHANGED <<preload, fetches>>
        /\ (tasks[t].pc = "awaiting" /\ tasks'[t] # tasks[t])
           => /\ preload[tasks[t].url] \in {"Preloaded", "RoutePreloaded"}
              /\ tasks'[t] = PreloadIdle(tasks[t].url, Some("Ok"))
              /\ UNCHANGED <<preload, fetches>>
C24_Resolves ==
    \A t \in Tasks :
        (tasks[t].pc = "awaiting") ~>
            (tasks[t].pc = "idle" /\ tasks[t].ret = Some("Ok"))
C27_AbortStep ==
    /\ ( /\ last'.op = "get_page"
         /\ page_state_store[last'.url].st # None
         /\ page_state_store[last'.url].st[1].ty # last'.ty )
       => ~alive'
    /\ ( /\ last'.op = "get_global"
         /\ global_state # None
         /\ global_state[1].ty # last'.ty )
       => ~alive'
C27_MissStep ==
    /\ ( /\ last'.op = "get_page"
         /\ page_state_store[last'.url].st # None
         /\ page_state_store[last'.url].st[1].ty # last'.ty )
       => /\ alive'
          /\ last'.kind \in {"Some", "None"}
          /\ GetActivePageState(page_state_store, last'.url, last'.ty) = None
          /\ last'.took # "frozen" =>
                 /\ last'.val = None
                 /\ UNCHANGED <<page_state_store, frozen_app>>
    /\ ( /\ last'.op = "get_global"
         /\ global_state # None
         /\ global_state[1].ty # last'.ty )
       => /\ alive'
          /\ last'.kind \in {"Some", "None"}
          /\ GetActiveGlobalState(global_state, last'.ty) = None
          /\ last'.took # "frozen" =>
                 /\ last'.val = None
                 /\ UNCHANGED <<global_state, frozen_app>>
C28_Step ==
    /\ last'.op = "get_page" =>
           /\ global_state' = global_state
           /\ \A v \in URLs \ {last'.url} :
                  page_state_store'[v] = page_state_store[v]
           /\ frozen_app # None =>
                  /\ frozen_app' # None
                  /\ frozen_app'[1].prefs = frozen_app[1].prefs
                  /\ frozen_app'[1].app.route = frozen_app[1].app.route
                  /\ frozen_app'[1].app.global_state =
                         frozen_app[1].app.global_state
                  /\ \A v \in URLs \ {last'.url} :
                         /\ v \in DOMAIN PendingPages' <=> v \in DOMAIN PendingPages
                         /\ v \in DOMAIN PendingPages =>
                                PendingPages'[v] = PendingPages[v]
    /\ last'.op = "get_global" =>
           /\ page_state_store' = page_state_store
           /\ frozen_app # None =>
                  /\ frozen_app' # None
                  /\ frozen_app'[1].prefs = frozen_app[1].prefs
                  /\ frozen_app'[1].app.route = frozen_app[1].app.route
                  /\ frozen_app'[1].app.page_state_store = PendingPages
    /\ last'.op # "thaw" =>
           /\ frozen_app = None => frozen_app' = None
           /\ frozen_app # None =>
                  /\ frozen_app' # None
                  /\ DOMAIN PendingPages' \subseteq DOMAIN PendingPages
C29_Step ==
    /\ last'.op = "freeze" =>
           /\ DOMAIN last'.val[1].page_state_store =
                  {u \in URLs : page_state_store[u].st # None}
           /\ \A u \in DOMAIN last'.val[1].page_state_store :
                  last'.val[1].page_state_store[u] =
                      FreezeValue(page_state_store[u].st[1])
           /\ router # "Server" => last'.val[1].route = router
    /\ (last.op = "freeze" /\ last'.op = "thaw") =>
           /\ frozen_app' # None
           /\ DOMAIN PendingPages' =
                  {u \in URLs : page_state_store[u].st # None}
           /\ frozen_app # None =>
                  \A u \in DOMAIN PendingPages :
                      page_state_store[u].st = None
                          => u \notin DOMAIN PendingPages'
C29_SnapshotContent == [][C29_Step]_vars

\* C29 witness: freeze() has returned, on a route, a snapshot without the
\* entry the pending snapshot still holds for a page that has no live
\* value.
C29_Witness ==
    /\ last.op = "freeze"
    /\ router # "Server"
    /\ frozen_app # None
    /\ \E u \in DOMAIN PendingPages :
           /\ u \notin consumed
           /\ page_state_store[u].st = None
           /\ u \notin DOMAIN last.val[1].page_state_store
    /\ DOMAIN last.val[1].page_state_store # {}

\* C30: reconciliation is idempotent when repeated. A page reconciliation
\* call made right after another one for the same URL returns the value the
\* first call returned and changes neither the page state store, the
\* global state nor the pending snapshot; the same holds for a global
\* reconciliation call made right after another one.
C30_Step ==
    last'.op \in {"get_page_again", "get_global_again"} =>
        /\ last'.val = last.val
        /\ last'.took # "frozen"
        /\ UNCHANGED <<page_state_store, global_state, frozen_app>>
====
